---------------------------- MODULE Spec2Model ----------------------------
(***************************************************************************)
(* State-machine model of the tennisbot decision loop                      *)
(* (src/app/automation.py), its scheduler (src/app/scheduler.py), the      *)
(* pricing engine (src/app/engine.py), the confirmation policy             *)
(* (src/app/matchstat_client.py) and order execution                       *)
(* (src/app/kalshi_orders.py).                                             *)
(*                                                                         *)
(* Conventions                                                             *)
(*   - Optional[x] is <<>> for None and <<x>> for a value.                 *)
(*   - probabilities are integer percents, factors integer hundredths,     *)
(*     target prices integer ten-thousandths (prob * factor is exact).     *)
(*   - a coroutine runs atomically between two awaits (asyncio, one event  *)
(*     loop thread); Resume(c) is the event loop resuming coroutine c at   *)
(*     the await it is suspended on, with the outcome of the awaited call. *)
(*   - the Market Snapshot Provider, the HTTP services and SQLite failures *)
(*     are the environment: their outcomes are chosen with \E.             *)
(***************************************************************************)
EXTENDS Integers, Sequences, FiniteSets, TLC

VARIABLES
    DRY_RUN,            \* automation.py:39  process-wide configuration flag
    ledger,             \* rows of table placed_orders, in insertion (id) order
    last_run,           \* automation.py:42  _last_run (0 = None, else clock value)
    last_run_summary,   \* automation.py:43  _last_run_summary (<<>> = {})
    total_orders,       \* automation.py:44  _total_orders_this_session
    jobActive,          \* scheduler.py:50   JOB_ID is registered in _scheduler
    co,                 \* per coroutine slot: the run_automation_cycle activation
    clock,              \* logical time: one tick per cycle start / cycle end
    started,            \* number of cycles started so far (bounded)
    history,            \* finished cycles, in order of completion
    effects,            \* external effects so far: orders sent/simulated, ledger inserts
    po_call,            \* direct call of place_limit_order: its arguments (<<>> = none)
    po_result,          \* direct call of place_limit_order: <<result>> once returned
    po_posts,           \* direct call of place_limit_order: payloads POSTed
    eng_call,           \* direct call of the pricing engine: function and matches
    eng_result,         \* direct call of the pricing engine: <<results>> once returned
    orc_call,           \* direct call of the confirmation policy: its input
    orc_result,         \* direct call of the confirmation policy: <<outcome>> once returned
    bets,               \* rows of table tracked_bets, in insertion (id) order
    bet_log,            \* per row of tracked_bets: the UPDATE statements run on it
    pm_call,            \* direct call of the snapshot provider: function and raw markets
    pm_result,          \* direct call of the snapshot provider: <<outcome>> once it ended
    db_result           \* direct call of a placed_orders function: <<function, value>>

vars == <<DRY_RUN, ledger, last_run, last_run_summary, total_orders, jobActive,
          co, clock, started, history, effects, po_call, po_result, po_posts,
          eng_call, eng_result, orc_call, orc_result, bets, bet_log,
          pm_call, pm_result, db_result>>

cycleVars == <<DRY_RUN, ledger, last_run, last_run_summary, total_orders,
               jobActive, co, clock, started, history, effects>>
orderVars == <<po_call, po_result, po_posts>>
engineVars == <<eng_call, eng_result>>
oracleVars == <<orc_call, orc_result>>
trackerVars == <<bets, bet_log>>
providerVars == <<pm_call, pm_result>>
ledgerCallVars == <<db_result>>
directVars == <<orderVars, engineVars, oracleVars, trackerVars, providerVars,
                ledgerCallVars>>

-----------------------------------------------------------------------------
(* Bounds of the model *)

MaxCycles == 2          \* cycles started in one behaviour
MaxSlots == 2           \* coroutines of run_automation_cycle alive at once
MaxMatches == 2         \* snapshots returned by one poll
MaxCount == 4           \* largest requested quantity of a direct order call
MaxCap == 3             \* largest MAX_CONTRACTS_PER_ORDER of a direct order call

Slots == 1..MaxSlots

None == <<>>
Some(x) == <<x>>

Min(a, b) == IF a <= b THEN a ELSE b
Abs(a) == IF a < 0 THEN 0 - a ELSE a

-----------------------------------------------------------------------------
(* Pricing engine, src/app/engine.py *)

BASE_FACTOR == 70
GAP_SMALL == 50
GAP_MEDIUM == 100
GAP_MAX == 150
GAP_ADJ_SMALL == -2
GAP_ADJ_MEDIUM == 3
GAP_ADJ_LARGE == 8
MIN_FAVORITE_PCT == 70
MAX_FAVORITE_PCT == 92
MIN_VOLUME == 100

TOURNAMENT_ADJ(level) ==
    CASE level = "ATP" -> 0
      [] level = "WTA" -> 0
      [] level = "Challenger" -> -5
      [] level = "Grand Slam" -> 5
      [] OTHER -> 0

SURFACE_ADJ(surface) ==
    CASE surface = "Hard" -> 0
      [] surface = "Clay" -> -2
      [] surface = "Grass" -> 3
      [] OTHER -> 0

\* Variant: no ranking-gap adjustment is added.
calculate_factor_flat(tournament, surface, ranking_gap) ==
    BASE_FACTOR + TOURNAMENT_ADJ(tournament) + SURFACE_ADJ(surface)

\* Variant: the target is the fair price, a factor of 1.00.
calculate_factor_par(tournament, surface, ranking_gap) == 100

calculate_factor(tournament, surface, ranking_gap) ==
    BASE_FACTOR + TOURNAMENT_ADJ(tournament) + SURFACE_ADJ(surface)
      + (IF ranking_gap < GAP_SMALL THEN GAP_ADJ_SMALL
         ELSE IF ranking_gap <= GAP_MEDIUM THEN GAP_ADJ_MEDIUM
         ELSE GAP_ADJ_LARGE)

compute_gap(match) ==
    IF match.rank_fav # None /\ match.rank_dog # None
    THEN Some(Abs(match.rank_fav[1] - match.rank_dog[1]))
    ELSE None

SkipResult(match, gap) ==
    [match |-> match, signal |-> "SKIP", target_price |-> None,
     factor |-> None, ranking_gap |-> gap, edge |-> None]

\* Variant: majors are priced like any other tier.
analyze_match_majors(match) ==
    IF match.fav_probability < MIN_FAVORITE_PCT THEN SkipResult(match, None)
    ELSE IF match.fav_probability > MAX_FAVORITE_PCT THEN SkipResult(match, None)
    ELSE LET ranking_gap == compute_gap(match) IN
         IF ranking_gap # None /\ ranking_gap[1] > GAP_MAX
         THEN SkipResult(match, ranking_gap)
         ELSE IF match.volume < MIN_VOLUME THEN SkipResult(match, ranking_gap)
         ELSE LET gap_for_calc == IF ranking_gap # None THEN ranking_gap[1] ELSE 0
                  factor == calculate_factor(match.tournament_level,
                                             match.surface, gap_for_calc)
                  target == match.fav_probability * factor
                  kalshi_decimal == match.kalshi_price * 100
                  edge == target - kalshi_decimal
              IN [match |-> match,
                  signal |-> IF kalshi_decimal <= target THEN "BUY" ELSE "WAIT",
                  target_price |-> Some(target), factor |-> Some(factor),
                  ranking_gap |-> ranking_gap, edge |-> Some(edge)]

\* Variant: the probability floor and ceiling are exclusive.
analyze_match_exclusive(match) ==
    IF match.tournament_level = "Grand Slam" THEN SkipResult(match, None)
    ELSE IF match.fav_probability <= MIN_FAVORITE_PCT THEN SkipResult(match, None)
    ELSE IF match.fav_probability >= MAX_FAVORITE_PCT THEN SkipResult(match, None)
    ELSE LET ranking_gap == compute_gap(match) IN
         IF ranking_gap # None /\ ranking_gap[1] > GAP_MAX
         THEN SkipResult(match, ranking_gap)
         ELSE IF match.volume < MIN_VOLUME THEN SkipResult(match, ranking_gap)
         ELSE LET gap_for_calc == IF ranking_gap # None THEN ranking_gap[1] ELSE 0
                  factor == calculate_factor(match.tournament_level,
                                             match.surface, gap_for_calc)
                  target == match.fav_probability * factor
                  kalshi_decimal == match.kalshi_price * 100
                  edge == target - kalshi_decimal
              IN [match |-> match,
                  signal |-> IF kalshi_decimal <= target THEN "BUY" ELSE "WAIT",
                  target_price |-> Some(target), factor |-> Some(factor),
                  ranking_gap |-> ranking_gap, edge |-> Some(edge)]

\* Variant: BUY only when the market is strictly below the target.
analyze_match_strict(match) ==
    IF match.tournament_level = "Grand Slam" THEN SkipResult(match, None)
    ELSE IF match.fav_probability < MIN_FAVORITE_PCT THEN SkipResult(match, None)
    ELSE IF match.fav_probability > MAX_FAVORITE_PCT THEN SkipResult(match, None)
    ELSE LET ranking_gap == compute_gap(match) IN
         IF ranking_gap # None /\ ranking_gap[1] > GAP_MAX
         THEN SkipResult(match, ranking_gap)
         ELSE IF match.volume < MIN_VOLUME THEN SkipResult(match, ranking_gap)
         ELSE LET gap_for_calc == IF ranking_gap # None THEN ranking_gap[1] ELSE 0
                  factor == calculate_factor(match.tournament_level,
                                             match.surface, gap_for_calc)
                  target == match.fav_probability * factor
                  kalshi_decimal == match.kalshi_price * 100
                  edge == target - kalshi_decimal
              IN [match |-> match,
                  signal |-> IF kalshi_decimal < target THEN "BUY" ELSE "WAIT",
                  target_price |-> Some(target), factor |-> Some(factor),
                  ranking_gap |-> ranking_gap, edge |-> Some(edge)]

analyze_match(match) ==
    IF match.tournament_level = "Grand Slam" THEN SkipResult(match, None)
    ELSE IF match.fav_probability < MIN_FAVORITE_PCT THEN SkipResult(match, None)
    ELSE IF match.fav_probability > MAX_FAVORITE_PCT THEN SkipResult(match, None)
    ELSE LET ranking_gap == compute_gap(match) IN
         IF ranking_gap # None /\ ranking_gap[1] > GAP_MAX
         THEN SkipResult(match, ranking_gap)
         ELSE IF match.volume < MIN_VOLUME THEN SkipResult(match, ranking_gap)
         ELSE LET gap_for_calc == IF ranking_gap # None THEN ranking_gap[1] ELSE 0
                  factor == calculate_factor(match.tournament_level,
                                             match.surface, gap_for_calc)
                  target == match.fav_probability * factor
                  kalshi_decimal == match.kalshi_price * 100
                  edge == target - kalshi_decimal
              IN [match |-> match,
                  signal |-> IF kalshi_decimal <= target THEN "BUY" ELSE "WAIT",
                  target_price |-> Some(target), factor |-> Some(factor),
                  ranking_gap |-> ranking_gap, edge |-> Some(edge)]

OfSignal(results, s) ==
    LET Test(r) == r.signal = s IN SelectSeq(results, Test)

\* Variant: the results are returned in input order.
analyze_all_unsorted(matches) ==
    [k \in 1..Len(matches) |-> analyze_match(matches[k])]

\* Stable sort of results on edge, smallest first
RECURSIVE ByEdge(_)
ByEdge(rs) ==
    IF rs = <<>> THEN <<>>
    ELSE LET h == Head(rs)
             rest == ByEdge(Tail(rs))
             Lower(r) == r.edge[1] < h.edge[1]
             NotLower(r) == ~Lower(r)
         IN SelectSeq(rest, Lower) \o <<h>> \o SelectSeq(rest, NotLower)

\* Variant: BUY results are ordered by edge, tightest first.
analyze_all_by_edge(matches) ==
    LET results == [k \in 1..Len(matches) |-> analyze_match(matches[k])]
    IN ByEdge(OfSignal(results, "BUY")) \o OfSignal(results, "WAIT")
         \o OfSignal(results, "SKIP")

\* list.sort is stable: sorting on the key BUY < WAIT < SKIP keeps the input
\* order inside each signal class.
analyze_all(matches) ==
    LET results == [k \in 1..Len(matches) |-> analyze_match(matches[k])]
    IN OfSignal(results, "BUY") \o OfSignal(results, "WAIT") \o OfSignal(results, "SKIP")

\* int(round(target_price * 100)): Python rounds halves to even
target_cents_of(target) ==
    LET q == target \div 100
        r == target % 100
    IN IF r > 50 \/ (r = 50 /\ q % 2 = 1) THEN q + 1 ELSE q

-----------------------------------------------------------------------------
(* Confirmation Oracle, src/app/matchstat_client.py *)

MATCHSTAT_MIN_WIN_PCT == 60
MATCHSTAT_MIN_H2H == 3

\* The parser of the search response is a stub: every path returns None.
parse_player_id(data) == None

\* _player_id_cache only ever holds values returned by parse_player_id.
search_player_id(api_key, http_ok) ==
    IF ~api_key THEN None
    ELSE IF http_ok THEN parse_player_id("data")
    ELSE None

\* h2h is <<wins, total>> as parsed from the response, or <<>> when the request
\* failed; the result is <<win_pct, total>> with win_pct = <<wins, total>>.
get_h2h_win_pct(h2h) ==
    IF h2h = <<>> THEN <<None, 0>>
    ELSE IF h2h[2] = 0 THEN <<None, 0>>
    ELSE <<Some(h2h), h2h[2]>>

\* Body of get_player_win_probability(player_fav, player_dog, tournament_level);
\* oracle is what the provider would answer: [api_key, search_ok, h2h].
get_player_win_probability(oracle) ==
    IF ~oracle.api_key THEN None
    ELSE LET id_fav == search_player_id(oracle.api_key, oracle.search_ok)
             id_dog == search_player_id(oracle.api_key, oracle.search_ok)
         IN IF id_fav = None \/ id_dog = None THEN None
            ELSE LET res == get_h2h_win_pct(oracle.h2h) IN
                 IF res[1] = None THEN None
                 ELSE IF res[2] < MATCHSTAT_MIN_H2H THEN None
                 ELSE res[1]

\* Variant: a fraction equal to the threshold does not confirm.
confirms_signal_strict(win_probability) ==
    IF win_probability = None THEN FALSE
    ELSE win_probability[1][1] * 100 > MATCHSTAT_MIN_WIN_PCT * win_probability[1][2]

\* win_probability >= MATCHSTAT_MIN_WIN_PCT, on the fraction wins/total
confirms_signal(win_probability) ==
    IF win_probability = None THEN FALSE
    ELSE win_probability[1][1] * 100 >= MATCHSTAT_MIN_WIN_PCT * win_probability[1][2]

\* Positional arguments the signature requires (player_fav, player_dog) ...
OracleRequiredArgs == 2
\* Variant: the call passes every required argument.
OracleCallArgs_complete == OracleRequiredArgs

\* ... and positional arguments the decision loop passes (m.player_fav.name).
OracleCallArgs == 1

\* Python binds the arguments when the coroutine function is called: a missing
\* required argument raises TypeError before anything is awaited.
OracleCallRaises == OracleCallArgs < OracleRequiredArgs

-----------------------------------------------------------------------------
(* Order Execution, src/app/kalshi_orders.py *)

CONTRACTS_PER_TRADE == 50
MAX_CONTRACTS_PER_ORDER == 100

\* Variant: the requested quantity is passed through unclamped.
ClampCount_unclamped(count, cap) == count

ClampCount(count, cap) == Min(count, cap)

OrderResult(dry, status, ticker, yes_price, count, order, error) ==
    [dry_run |-> dry, status |-> status, ticker |-> ticker,
     yes_price |-> yes_price, count |-> count, order |-> order, error |-> error]

HttpOutcomes == {"ok", "status_error", "auth_error", "network_error"}

\* Variant: the dry-run short-circuit is missing.
place_limit_order_live(ticker, yes_price, count, dry_run, cap, http) ==
    LET n == ClampCount(count, cap)
        payload == [ticker |-> ticker, action |-> "buy", type |-> "limit",
                    count |-> n, yes_price |-> yes_price]
    IN IF http = "ok"
       THEN [result |-> OrderResult(FALSE, "placed", None, None, None,
                                    Some(payload), None),
             posts |-> <<payload>>]
       ELSE [result |-> OrderResult(FALSE, "failed", Some(ticker), None,
                                    None, None, Some("HTTPStatusError")),
             posts |-> <<payload>>]

\* place_limit_order(ticker, yes_price, count, dry_run) with the module-level cap
\* and the outcome of the HTTP exchange; returns the result dict and the list of
\* payloads handed to client.post.
place_limit_order(ticker, yes_price, count, dry_run, cap, http) ==
    LET n == ClampCount(count, cap)
        payload == [ticker |-> ticker, action |-> "buy", type |-> "limit",
                    count |-> n, yes_price |-> yes_price]
    IN IF dry_run
       THEN [result |-> OrderResult(TRUE, "simulated", Some(ticker),
                                    Some(yes_price), Some(n), None, None),
             posts |-> <<>>]
       ELSE CASE http = "ok" ->
                   [result |-> OrderResult(FALSE, "placed", None, None, None,
                                           Some(payload), None),
                    posts |-> <<payload>>]
              [] http = "status_error" ->
                   [result |-> OrderResult(FALSE, "failed", Some(ticker), None,
                                           None, None, Some("HTTPStatusError")),
                    posts |-> <<payload>>]
              [] http = "auth_error" ->
                   [result |-> OrderResult(FALSE, "error", Some(ticker), None,
                                           None, None, Some("Exception")),
                    posts |-> <<>>]
              [] OTHER ->
                   [result |-> OrderResult(FALSE, "error", Some(ticker), None,
                                           None, None, Some("Exception")),
                    posts |-> <<payload>>]

-----------------------------------------------------------------------------
(* Environment inputs *)

\* A MatchData as the decision loop reads it.  kalshi_ticker and
\* kalshi_event_ticker are "" when missing (the loop reads them through `or ""`).
Match(ev, tk, price, level) ==
    [kalshi_event_ticker |-> ev, kalshi_ticker |-> tk,
     fav_probability |-> 75, kalshi_price |-> price,
     tournament_level |-> level, surface |-> "Hard", volume |-> 500,
     rank_fav |-> None, rank_dog |-> None]

\* Snapshots a poll can contain: BUY ones with and without the two identifiers,
\* and one that is not BUY.
MatchCatalog ==
    { Match("EV1", "MKT1", 50, "ATP"),          \* BUY
      Match("EV2", "MKT2", 51, "ATP"),          \* BUY, price = target
      Match("EV1", "MKT1", 60, "ATP"),          \* WAIT
      Match("", "MKT3", 50, "ATP"),             \* BUY, no event identifier
      Match("EV2", "", 50, "ATP") }             \* BUY, no market identifier

EventTickers == {"EV1", "EV2"}

\* fetch_tennis_markets keeps one market per event_ticker
FetchResults ==
    { ms \in UNION { [1..n -> MatchCatalog] : n \in 0..MaxMatches } :
        \A a, b \in 1..Len(ms) :
            a # b => ms[a].kalshi_event_ticker # ms[b].kalshi_event_ticker }

OracleAnswers ==
    { [api_key |-> k, search_ok |-> s, h2h |-> h] :
        k \in BOOLEAN, s \in BOOLEAN, h \in {<<>>, <<3, 5>>} }

NoEnv == [kind |-> "ok", exc |-> "", matches |-> <<>>,
          oracle |-> [api_key |-> FALSE, search_ok |-> FALSE, h2h |-> <<>>],
          http |-> "ok"]

\* Outcomes of the call a coroutine is suspended on
EnvOutcomes(pc, dry) ==
    CASE pc = "fetch" ->
            { [NoEnv EXCEPT !.matches = ms] : ms \in FetchResults }
              \cup { [NoEnv EXCEPT !.kind = "raise", !.exc = "FetchError"] }
      [] pc \in {"check", "record_rejected", "record"} ->
            { NoEnv, [NoEnv EXCEPT !.kind = "raise", !.exc = "DatabaseError"] }
      [] pc = "oracle" ->
            { [NoEnv EXCEPT !.oracle = o] : o \in OracleAnswers }
      [] pc = "order" ->
            IF dry THEN { NoEnv }
            ELSE { [NoEnv EXCEPT !.http = h] : h \in HttpOutcomes }
      [] OTHER -> {}

-----------------------------------------------------------------------------
(* Idempotency ledger, src/app/automation.py *)

Statuses == {"simulated", "placed", "failed", "error", "rejected_by_matchstat"}

LedgerRow(ev, tk, target, contracts, price, win_pct, dry, status) ==
    [event_ticker |-> ev, ticker |-> tk, target_price |-> target,
     contracts |-> contracts, kalshi_price |-> price,
     matchstat_win_pct |-> win_pct, dry_run |-> dry, status |-> status]

\* Variant: only rows of successful orders count as processed.
already_ordered_successful(rows, event_ticker) ==
    \E k \in 1..Len(rows) :
        /\ rows[k].event_ticker = event_ticker
        /\ rows[k].status \in {"simulated", "placed"}

\* SELECT id FROM placed_orders WHERE event_ticker = ? ... fetchone() is not None
already_ordered(rows, event_ticker) ==
    \E k \in 1..Len(rows) : rows[k].event_ticker = event_ticker

\* Variant: INSERT OR REPLACE keyed on the event, the earlier rows of the
\* event go away.
record_order_replace(rows, row) ==
    LET other(r) == r.event_ticker # row.event_ticker
    IN Append(SelectSeq(rows, other), row)

\* INSERT INTO placed_orders ... ; commit
record_order(rows, row) == Append(rows, row)

\* SELECT * FROM placed_orders ORDER BY placed_at DESC LIMIT 200 (read only)
get_all_orders(rows) == [k \in 1..Len(rows) |-> rows[Len(rows) + 1 - k]]

RowsOf(rows, ev) == { k \in 1..Len(rows) : rows[k].event_ticker = ev }

EventsIn(rows) == { rows[k].event_ticker : k \in 1..Len(rows) }

-----------------------------------------------------------------------------
(* run_automation_cycle, src/app/automation.py:136-270 *)

NewSummary(t, dry) ==
    [started_at |-> t, dry_run |-> dry, markets_fetched |-> 0, buy_signals |-> 0,
     already_ordered |-> 0, matchstat_checked |-> 0, matchstat_confirmed |-> 0,
     matchstat_rejected |-> 0, orders_placed |-> 0, orders_failed |-> 0,
     skipped_no_ticker |-> 0, details |-> <<>>, error |-> None]

\* An activation of run_automation_cycle: its await point (pc), its locals, and
\* four observers: had (events with a ledger row when the cycle started),
\* passed (event and signal of the results the BUY filter left out), consulted
\* (events for which step 3, the confirmation, was begun) and raised (the
\* exception raised inside the try block, if any).
IdleCo ==
    [pc |-> "idle", trigger |-> "", summary |-> NewSummary(0, FALSE),
     sigs |-> <<>>, i |-> 0, win_pct |-> None, order_result |-> None,
     had |-> {}, passed |-> {}, consulted |-> {}, raised |-> None]

Detail(r, action) ==
    [event_ticker |-> r.match.kalshi_event_ticker,
     ticker |-> r.match.kalshi_ticker,
     kalshi_price |-> r.match.kalshi_price,
     target_price |-> target_cents_of(r.target_price[1]),
     action |-> action]

AddDetail(w, action) ==
    [w EXCEPT !.c.summary.details = Append(@, Detail(w.c.sigs[w.c.i], action))]

\* Variant: the handler catches only the provider's errors.
CaughtByCycle_narrow(exc) == exc = "FetchError"

\* except Exception as e (automation.py:260): every exception of the model is
\* an Exception subclass.
CaughtByCycle(exc) == TRUE

\* An exception raised inside the try block leaves the for loop.
Raise(w, exc) ==
    IF CaughtByCycle(exc)
    THEN [w EXCEPT !.c.raised = Some(exc), !.c.summary.error = Some(exc),
                   !.c.pc = "exit"]
    ELSE [w EXCEPT !.c.raised = Some(exc), !.c.pc = "propagate"]

\* The for loop from its head at signal i up to the next await: signals without
\* both identifiers are skipped on the spot; the first one with both suspends
\* the coroutine in already_ordered; past the last one the loop is left.
RECURSIVE LoopFrom(_)
\* Variant: a signal without both identifiers is passed over without a trace.
LoopFrom_silent(w) ==
    IF w.c.i > Len(w.c.sigs) THEN [w EXCEPT !.c.pc = "exit"]
    ELSE LET m == w.c.sigs[w.c.i].match IN
         IF m.kalshi_ticker = "" \/ m.kalshi_event_ticker = ""
         THEN LoopFrom([w EXCEPT !.c.i = @ + 1])
         ELSE [w EXCEPT !.c.pc = "check"]

LoopFrom(w) ==
    IF w.c.i > Len(w.c.sigs) THEN [w EXCEPT !.c.pc = "exit"]
    ELSE LET m == w.c.sigs[w.c.i].match IN
         IF m.kalshi_ticker = "" \/ m.kalshi_event_ticker = ""
         THEN LoopFrom([AddDetail(w, "skipped_no_ticker") EXCEPT
                          !.c.summary.skipped_no_ticker = @ + 1,
                          !.c.i = @ + 1])
         ELSE [w EXCEPT !.c.pc = "check"]

\* Variant: WAIT results are acted on as well.
buy_signals_of_actionable(results) ==
    OfSignal(results, "BUY") \o OfSignal(results, "WAIT")

\* line 168: buy_signals = [r for r in results if r.signal == Signal.BUY]
buy_signals_of(results) == OfSignal(results, "BUY")

\* lines 163-176: fetch returned (or raised); analyze, filter, enter the loop
AfterFetch(w, env) ==
    IF env.kind = "raise" THEN Raise(w, env.exc)
    ELSE LET results == analyze_all(env.matches)
             buy_signals == buy_signals_of(results)
             not_buy == { k \in 1..Len(results) : results[k].signal # "BUY" }
         IN LoopFrom([w EXCEPT !.c.summary.markets_fetched = Len(env.matches),
                               !.c.summary.buy_signals = Len(buy_signals),
                               !.c.sigs = buy_signals,
                               !.c.passed =
                                   { <<results[k].match.kalshi_event_ticker,
                                       results[k].signal>> : k \in not_buy },
                               !.c.i = 1])

\* Variant: a duplicate is reported in the details but not counted.
AfterCheck_uncounted(w, env) ==
    LET ev == w.c.sigs[w.c.i].match.kalshi_event_ticker IN
    IF env.kind = "raise" THEN Raise(w, env.exc)
    ELSE IF already_ordered(w.ledger, ev)
    THEN LoopFrom([AddDetail(w, "already_ordered") EXCEPT !.c.i = @ + 1])
    ELSE LET w1 == [w EXCEPT !.c.summary.matchstat_checked = @ + 1,
                             !.c.consulted = @ \cup {ev}]
         IN IF OracleCallRaises THEN Raise(w1, "TypeError")
            ELSE [w1 EXCEPT !.c.pc = "oracle"]

\* lines 199-211: already_ordered returned; dedup guard, then step 3
AfterCheck(w, env) ==
    LET ev == w.c.sigs[w.c.i].match.kalshi_event_ticker IN
    IF env.kind = "raise" THEN Raise(w, env.exc)
    ELSE IF already_ordered(w.ledger, ev)
    THEN LoopFrom([AddDetail(w, "already_ordered") EXCEPT
                     !.c.summary.already_ordered = @ + 1,
                     !.c.i = @ + 1])
    ELSE LET w1 == [w EXCEPT !.c.summary.matchstat_checked = @ + 1,
                             !.c.consulted = @ \cup {ev}]
         IN IF OracleCallRaises THEN Raise(w1, "TypeError")
            ELSE [w1 EXCEPT !.c.pc = "oracle"]

\* lines 208-236: the oracle returned; confirmation policy
AfterOracle(w, env) ==
    LET win_pct == get_player_win_probability(env.oracle)
        w1 == [w EXCEPT !.c.win_pct = win_pct]
    IN IF ~confirms_signal(win_pct)
       THEN [w1 EXCEPT !.c.summary.matchstat_rejected = @ + 1,
                       !.c.pc = "record_rejected"]
       ELSE [w1 EXCEPT !.c.summary.matchstat_confirmed = @ + 1,
                       !.c.pc = "order"]

Effect(kind, w, count, status) ==
    [kind |-> kind, event_ticker |-> w.c.sigs[w.c.i].match.kalshi_event_ticker,
     cycle |-> w.c.summary.started_at, count |-> count, status |-> status]

\* lines 217-226: record_order of the rejection returned
AfterRecordRejected(w, env, dry) ==
    LET r == w.c.sigs[w.c.i]
        row == LedgerRow(r.match.kalshi_event_ticker, r.match.kalshi_ticker,
                         target_cents_of(r.target_price[1]), 0,
                         r.match.kalshi_price, w.c.win_pct, dry,
                         "rejected_by_matchstat")
    IN IF env.kind = "raise" THEN Raise(w, env.exc)
       ELSE LoopFrom([AddDetail(w, "matchstat_rejected") EXCEPT
                        !.ledger = record_order(@, row),
                        !.effects = Append(@, Effect("insert", w, 0,
                                                     "rejected_by_matchstat")),
                        !.c.i = @ + 1])

\* lines 231-256: place_limit_order returned; count it, then record
AfterOrder(w, env, dry) ==
    LET r == w.c.sigs[w.c.i]
        po == place_limit_order(r.match.kalshi_ticker,
                                target_cents_of(r.target_price[1]),
                                CONTRACTS_PER_TRADE, dry,
                                MAX_CONTRACTS_PER_ORDER, env.http)
        order_status == po.result.status
        sent == ClampCount(CONTRACTS_PER_TRADE, MAX_CONTRACTS_PER_ORDER)
        w1 == [w EXCEPT !.c.order_result = Some(po.result),
                        !.effects = Append(@, Effect("order", w, sent, order_status)),
                        !.c.pc = "record"]
    IN IF order_status \in {"placed", "simulated"}
       THEN [w1 EXCEPT !.c.summary.orders_placed = @ + 1,
                       !.total_orders = @ + 1]
       ELSE [w1 EXCEPT !.c.summary.orders_failed = @ + 1]

OrderAction(status) ==
    CASE status = "placed" -> "order_placed"
      [] status = "simulated" -> "order_simulated"
      [] status = "failed" -> "order_failed"
      [] OTHER -> "order_error"

\* lines 249-258: record_order of the order returned
AfterRecord(w, env, dry) ==
    LET r == w.c.sigs[w.c.i]
        order_status == w.c.order_result[1].status
        row == LedgerRow(r.match.kalshi_event_ticker, r.match.kalshi_ticker,
                         target_cents_of(r.target_price[1]), CONTRACTS_PER_TRADE,
                         r.match.kalshi_price, w.c.win_pct, dry, order_status)
    IN IF env.kind = "raise" THEN Raise(w, env.exc)
       ELSE LoopFrom([AddDetail(w, OrderAction(order_status)) EXCEPT
                        !.ledger = record_order(@, row),
                        !.effects = Append(@, Effect("insert", w,
                                                     CONTRACTS_PER_TRADE,
                                                     order_status)),
                        !.c.i = @ + 1])

\* The coroutine runs from the await it is suspended on to the next one
StepAt(w, env, dry) ==
    CASE w.c.pc = "fetch" -> AfterFetch(w, env)
      [] w.c.pc = "check" -> AfterCheck(w, env)
      [] w.c.pc = "oracle" -> AfterOracle(w, env)
      [] w.c.pc = "record_rejected" -> AfterRecordRejected(w, env, dry)
      [] w.c.pc = "order" -> AfterOrder(w, env, dry)
      [] w.c.pc = "record" -> AfterRecord(w, env, dry)
      [] OTHER -> w

SignalIds(sigs) ==
    [k \in 1..Len(sigs) |-> <<sigs[k].match.kalshi_event_ticker,
                              sigs[k].match.kalshi_ticker>>]

\* What is kept of a finished cycle
HistoryEntry(c, t) ==
    [started_at |-> c.summary.started_at, ended_at |-> t,
     outcome |-> IF c.pc = "exit" THEN "returned" ELSE "propagated",
     raised |-> c.raised, summary |-> c.summary, sigs |-> SignalIds(c.sigs),
     at |-> c.i, had |-> c.had, passed |-> c.passed, consulted |-> c.consulted]

-----------------------------------------------------------------------------
(* Initial state *)

\* placed_orders lives in a file that outlives the process (CREATE TABLE IF NOT
\* EXISTS): at start-up it is empty or holds rows of earlier runs.
InitialLedgers ==
    { <<>> } \cup
    { << LedgerRow("EV1", "MKT1", 51, IF st = "rejected_by_matchstat" THEN 0
                                      ELSE CONTRACTS_PER_TRADE,
                   50, None, TRUE, st) >> : st \in Statuses }

InitCycle ==
    /\ DRY_RUN \in BOOLEAN
    /\ ledger \in InitialLedgers
    /\ last_run = 0
    /\ last_run_summary = None
    /\ total_orders = 0
    /\ jobActive = FALSE
    /\ co = [c \in Slots |-> IdleCo]
    /\ clock = 0
    /\ started = 0
    /\ history = <<>>
    /\ effects = <<>>

\* No direct call of the engine / of the confirmation policy is in progress
IdleEngine == eng_call = None /\ eng_result = None
IdleOracle == orc_call = None /\ orc_result = None
\* tracked_bets is empty / no direct call of the snapshot provider is in progress
IdleTracker == bets = <<>> /\ bet_log = <<>>
IdleProvider == pm_call = None /\ pm_result = None
IdleLedgerCall == db_result = None

Init ==
    /\ InitCycle
    /\ po_call = None
    /\ po_result = None
    /\ po_posts = <<>>
    /\ IdleEngine
    /\ IdleOracle
    /\ IdleTracker
    /\ IdleProvider
    /\ IdleLedgerCall

-----------------------------------------------------------------------------
(* Triggers of a cycle *)

Running == { c \in Slots : co[c].pc # "idle" }

\* The activation takes the first free coroutine slot
IsFreeSlot(c) ==
    /\ co[c].pc = "idle"
    /\ \A d \in Slots : d < c => co[d].pc # "idle"

\* automation.py:142-164: set _last_run, build the summary, await the fetch
Begin(c, trig) ==
    /\ started < MaxCycles
    /\ IsFreeSlot(c)
    /\ started' = started + 1
    /\ clock' = clock + 1
    /\ last_run' = clock + 1
    /\ co' = [co EXCEPT ![c] = [IdleCo EXCEPT !.pc = "fetch",
                                              !.trigger = trig,
                                              !.summary = NewSummary(clock + 1, DRY_RUN),
                                              !.had = EventsIn(ledger)]]
    /\ UNCHANGED <<DRY_RUN, ledger, last_run_summary, total_orders, history,
                   effects, directVars>>

\* scheduler.py:50-57: the interval job fires; add_job leaves max_instances at
\* its default of 1, so a firing is dropped while an earlier one still runs.
IntervalFire(c) ==
    /\ jobActive
    /\ \A d \in Running : co[d].trigger # "interval"
    /\ Begin(c, "interval")
    /\ UNCHANGED jobActive

\* scheduler.py:45-67 start_automation: add (or replace) the job, then run a
\* cycle at once
StartAutomation(c) ==
    /\ jobActive' = TRUE
    /\ Begin(c, "start")

\* scheduler.py:70-75 stop_automation
StopAutomation ==
    /\ jobActive
    /\ jobActive' = FALSE
    /\ UNCHANGED <<DRY_RUN, ledger, last_run, last_run_summary, total_orders, co,
                   clock, started, history, effects, directVars>>

\* routes.py:281-291 POST /automation/run
ManualRun(c) ==
    /\ Begin(c, "manual")
    /\ UNCHANGED jobActive

\* The event loop resumes coroutine c with the outcome of the call it awaits;
\* lines 264-270 end the cycle when the loop is left or an exception is caught.
ResumeOn(c, outcomes) ==
    /\ co[c].pc # "idle"
    /\ \E env \in outcomes :
         LET w0 == [c |-> co[c], ledger |-> ledger,
                    total_orders |-> total_orders, effects |-> effects]
             w1 == StepAt(w0, env, DRY_RUN)
         IN /\ ledger' = w1.ledger
            /\ total_orders' = w1.total_orders
            /\ effects' = w1.effects
            /\ IF w1.c.pc \in {"exit", "propagate"}
               THEN /\ co' = [co EXCEPT ![c] = IdleCo]
                    /\ clock' = clock + 1
                    /\ history' = Append(history, HistoryEntry(w1.c, clock + 1))
                    /\ last_run_summary' = IF w1.c.pc = "exit"
                                           THEN Some(w1.c.summary)
                                           ELSE last_run_summary
               ELSE /\ co' = [co EXCEPT ![c] = w1.c]
                    /\ UNCHANGED <<clock, history, last_run_summary>>
    /\ UNCHANGED <<DRY_RUN, last_run, jobActive, started, directVars>>

Resume(c) == ResumeOn(c, EnvOutcomes(co[c].pc, DRY_RUN))

Next ==
    \/ \E c \in Slots : IntervalFire(c)
    \/ \E c \in Slots : StartAutomation(c)
    \/ StopAutomation
    \/ \E c \in Slots : ManualRun(c)
    \/ \E c \in Slots : Resume(c)

Spec == Init /\ [][Next]_vars

-----------------------------------------------------------------------------
(* Cycles run one at a time, on polls that also contain majors *)

WideCatalog == MatchCatalog \cup { Match("EV2", "MKT2", 50, "Grand Slam") }   \* SKIP

WideFetchResults ==
    { ms \in UNION { [1..n -> WideCatalog] : n \in 0..MaxMatches } :
        \A a, b \in 1..Len(ms) :
            a # b => ms[a].kalshi_event_ticker # ms[b].kalshi_event_ticker }

WideOutcomes(pc, dry) ==
    IF pc = "fetch"
    THEN { [NoEnv EXCEPT !.matches = ms] : ms \in WideFetchResults }
           \cup { [NoEnv EXCEPT !.kind = "raise", !.exc = "FetchError"] }
    ELSE EnvOutcomes(pc, dry)

\* DRY_RUN at its default (automation.py:39), placed_orders empty
InitSequential ==
    /\ InitCycle
    /\ DRY_RUN = TRUE
    /\ ledger = <<>>
    /\ po_call = None /\ po_result = None /\ po_posts = <<>>
    /\ IdleEngine
    /\ IdleOracle
    /\ IdleTracker
    /\ IdleProvider
    /\ IdleLedgerCall

\* POST /automation/run while no cycle is in progress
RunAlone(c) ==
    /\ Running = {}
    /\ ManualRun(c)

ResumeAlone(c) == ResumeOn(c, WideOutcomes(co[c].pc, DRY_RUN))

NextSequential ==
    \/ \E c \in Slots : RunAlone(c)
    \/ \E c \in Slots : ResumeAlone(c)

SpecSequential == InitSequential /\ [][NextSequential]_vars

-----------------------------------------------------------------------------
(* Direct calls of place_limit_order *)

OrderArgs ==
    { [ticker |-> t, yes_price |-> p, count |-> n, dry_run |-> d, cap |-> m,
       http |-> h] :
        t \in {"MKT1", "MKT2"}, p \in {1, 51, 99}, n \in 1..MaxCount,
        d \in BOOLEAN, m \in 1..MaxCap, h \in HttpOutcomes }

InitOrder ==
    /\ DRY_RUN = TRUE
    /\ ledger = <<>>
    /\ last_run = 0
    /\ last_run_summary = None
    /\ total_orders = 0
    /\ jobActive = FALSE
    /\ co = [c \in Slots |-> IdleCo]
    /\ clock = 0
    /\ started = 0
    /\ history = <<>>
    /\ effects = <<>>
    /\ po_call \in { Some(a) : a \in OrderArgs }
    /\ po_result = None
    /\ po_posts = <<>>
    /\ IdleEngine
    /\ IdleOracle
    /\ IdleTracker
    /\ IdleProvider
    /\ IdleLedgerCall

\* The call runs to its return
OrderCall ==
    /\ po_result = None
    /\ LET a == po_call[1]
           po == place_limit_order(a.ticker, a.yes_price, a.count, a.dry_run,
                                   a.cap, a.http)
       IN /\ po_result' = Some(po.result)
          /\ po_posts' = po.posts
    /\ UNCHANGED <<po_call, cycleVars, engineVars, oracleVars, trackerVars, providerVars, ledgerCallVars>>

\* The next call, with other arguments
OrderAgain ==
    /\ po_result # None
    /\ po_call' \in { Some(a) : a \in OrderArgs }
    /\ po_result' = None
    /\ po_posts' = <<>>
    /\ UNCHANGED <<cycleVars, engineVars, oracleVars, trackerVars, providerVars, ledgerCallVars>>

NextOrder == OrderCall \/ OrderAgain

SpecOrder == InitOrder /\ [][NextOrder]_vars

-----------------------------------------------------------------------------
(* Direct calls of the pricing engine: analyze_match (routes.py:61) and      *)
(* analyze_all (routes.py:36, automation.py:167)                             *)

MaxBatch == 3           \* matches handed to one analyze_all call

\* The cycle and the order call at rest
RestCycle ==
    /\ DRY_RUN = TRUE
    /\ ledger = <<>>
    /\ last_run = 0
    /\ last_run_summary = None
    /\ total_orders = 0
    /\ jobActive = FALSE
    /\ co = [c \in Slots |-> IdleCo]
    /\ clock = 0
    /\ started = 0
    /\ history = <<>>
    /\ effects = <<>>

RestOrder == po_call = None /\ po_result = None /\ po_posts = <<>>

\* Rankings of the two players: unknown, or with a gap below, at and above each
\* breakpoint
RankPairs ==
    { <<None, None>>, <<Some(10), None>>, <<Some(10), Some(40)>>,
      <<Some(10), Some(60)>>, <<Some(110), Some(10)>>, <<Some(10), Some(160)>>,
      <<Some(10), Some(161)>> }

\* MatchData handed to analyze_match: every tier and surface class, the
\* probability on both sides of the floor and of the ceiling, the volume on both
\* sides of the minimum, market prices below, at and above the targets
EngineMatches ==
    { [kalshi_event_ticker |-> "EV1", kalshi_ticker |-> "MKT1",
       fav_probability |-> p, kalshi_price |-> c, tournament_level |-> l,
       surface |-> s, volume |-> v, rank_fav |-> r[1], rank_dog |-> r[2]] :
        p \in {69, 70, 75, 92, 93}, c \in {40, 51, 52, 80},
        l \in {"ATP", "Challenger", "Grand Slam"}, s \in {"Hard", "Clay"},
        v \in {99, 100}, r \in RankPairs }

\* MatchData handed to analyze_all: BUY with edge 0.01, BUY with edge 0, WAIT, SKIP
BatchCatalog ==
    { Match("EV1", "MKT1", 50, "ATP"), Match("EV2", "MKT2", 51, "ATP"),
      Match("EV3", "MKT3", 60, "ATP"), Match("EV4", "MKT4", 50, "Grand Slam") }

EngineCalls ==
    { [fn |-> "analyze_match", matches |-> <<m>>] : m \in EngineMatches }
      \cup { [fn |-> "analyze_all", matches |-> ms] :
                ms \in UNION { [1..n -> BatchCatalog] : n \in 0..MaxBatch } }

InitEngine ==
    /\ RestCycle
    /\ RestOrder
    /\ IdleOracle
    /\ IdleTracker
    /\ IdleProvider
    /\ IdleLedgerCall
    /\ eng_call \in { Some(a) : a \in EngineCalls }
    /\ eng_result = None

\* analyze_match(match) runs to its return
AnalyzeMatchCall ==
    /\ eng_result = None
    /\ eng_call[1].fn = "analyze_match"
    /\ eng_result' = Some(<<analyze_match(eng_call[1].matches[1])>>)
    /\ UNCHANGED <<eng_call, cycleVars, orderVars, oracleVars, trackerVars,
                   providerVars, ledgerCallVars>>

\* analyze_all(matches) runs to its return
AnalyzeAllCall ==
    /\ eng_result = None
    /\ eng_call[1].fn = "analyze_all"
    /\ eng_result' = Some(analyze_all(eng_call[1].matches))
    /\ UNCHANGED <<eng_call, cycleVars, orderVars, oracleVars, trackerVars,
                   providerVars, ledgerCallVars>>

NextEngine == AnalyzeMatchCall \/ AnalyzeAllCall

SpecEngine == InitEngine /\ [][NextEngine]_vars

-----------------------------------------------------------------------------
(* Direct calls of the confirmation policy: confirms_signal on a given       *)
(* fraction, and on what get_player_win_probability returns                  *)

MaxH2H == 5             \* largest head-to-head total of an input

\* A win fraction wins/total as _get_h2h_win_pct computes it
Fractions == { <<w, t>> : w \in 0..MaxH2H, t \in 1..MaxH2H }

H2HAnswers == { <<>> } \cup { <<w, t>> : w \in 0..MaxH2H, t \in 0..MaxH2H }

NoOracle == [api_key |-> FALSE, search_ok |-> FALSE, h2h |-> <<>>]

PolicyCalls ==
    { [fn |-> "confirms_signal", win |-> x, oracle |-> NoOracle] :
        x \in { None } \cup { Some(f) : f \in Fractions } }
      \cup { [fn |-> "get_player_win_probability", win |-> None, oracle |-> o] :
                o \in [api_key : BOOLEAN, search_ok : BOOLEAN, h2h : H2HAnswers] }

InitOracle ==
    /\ RestCycle
    /\ RestOrder
    /\ IdleEngine
    /\ IdleTracker
    /\ IdleProvider
    /\ IdleLedgerCall
    /\ orc_call \in { Some(a) : a \in PolicyCalls }
    /\ orc_result = None

\* confirms_signal(win_probability) runs to its return
ConfirmsCall ==
    /\ orc_result = None
    /\ orc_call[1].fn = "confirms_signal"
    /\ orc_result' = Some([win_pct |-> orc_call[1].win,
                           confirmed |-> confirms_signal(orc_call[1].win)])
    /\ UNCHANGED <<orc_call, cycleVars, orderVars, engineVars, trackerVars,
                   providerVars, ledgerCallVars>>

\* get_player_win_probability(...) runs to its return and the policy is applied
\* to what it returned
WinProbabilityCall ==
    /\ orc_result = None
    /\ orc_call[1].fn = "get_player_win_probability"
    /\ LET win_pct == get_player_win_probability(orc_call[1].oracle)
       IN orc_result' = Some([win_pct |-> win_pct,
                              confirmed |-> confirms_signal(win_pct)])
    /\ UNCHANGED <<orc_call, cycleVars, orderVars, engineVars, trackerVars,
                   providerVars, ledgerCallVars>>

NextOracle == ConfirmsCall \/ WinProbabilityCall

SpecOracle == InitOracle /\ [][NextOracle]_vars

-----------------------------------------------------------------------------
(* Outcome ledger, src/app/bet_tracker.py.  Prices are cents; pnl is kept in *)
(* cents: round(c / 100, 2) of an integer c is the dollar amount c cents.    *)

MaxBets == 2            \* rows inserted into tracked_bets
MaxUpdates == 2         \* UPDATE statements run on one row

\* Variant: a price equal to the target does not fill.
order_filled_of_strict(target_price, lowest_price_reached) ==
    IF lowest_price_reached < target_price THEN 1 ELSE 0

\* line 126
order_filled_of(target_price, lowest_price_reached) ==
    IF lowest_price_reached <= target_price THEN 1 ELSE 0

\* Variant: the fill price is the target whether filled or not.
fill_price_of_always(order_filled, target_price) == Some(target_price)

\* line 127
fill_price_of(order_filled, target_price) ==
    IF order_filled # 0 THEN Some(target_price) ELSE None

\* Variant: the stake is lost with the match whether the order filled or not.
pnl_of_unfilled(order_filled, target_price, match_outcome, contracts) ==
    IF match_outcome = "fav_won"
    THEN IF order_filled # 0 THEN (100 - target_price) * contracts ELSE 0
    ELSE 0 - (target_price * contracts)

\* lines 130-136; fill_price is target_price whenever order_filled is truthy
pnl_of(order_filled, target_price, match_outcome, contracts) ==
    IF order_filled # 0 /\ contracts # 0
    THEN IF match_outcome = "fav_won"
         THEN (100 - target_price) * contracts
         ELSE 0 - (target_price * contracts)
    ELSE 0

calculate_outcome(target_price, lowest_price_reached, match_outcome, contracts) ==
    LET order_filled == order_filled_of(target_price, lowest_price_reached)
    IN [order_filled |-> order_filled,
        fill_price |-> fill_price_of(order_filled, target_price),
        edge |-> lowest_price_reached - target_price,
        pnl |-> pnl_of(order_filled, target_price, match_outcome, contracts)]

\* The row INSERTed by track_bet: the snapshot, NULL outcome and derived columns
BetRow(a) ==
    [event_ticker |-> a.event_ticker, fav_probability |-> a.fav_probability,
     kalshi_price |-> a.kalshi_price, target_price |-> a.target_price,
     contracts |-> None, lowest_price_reached |-> None, match_outcome |-> None,
     order_filled |-> None, fill_price |-> None, edge |-> None, pnl |-> None,
     status |-> "pending"]

track_bet(rows, a) == Append(rows, BetRow(a))

\* Variant: an UPDATE of a completed row puts it back to pending.
update_row_reopen(row, lowest_price_reached, match_outcome, contracts, derived) ==
    IF row.status = "completed"
    THEN [row EXCEPT !.status = "pending"]
    ELSE [row EXCEPT !.contracts = Some(contracts),
                     !.lowest_price_reached = Some(lowest_price_reached),
                     !.match_outcome = Some(match_outcome),
                     !.order_filled = Some(derived.order_filled),
                     !.fill_price = derived.fill_price,
                     !.edge = Some(derived.edge),
                     !.pnl = Some(derived.pnl),
                     !.status = "completed"]

\* lines 168-193: UPDATE tracked_bets SET ... status = 'completed' WHERE id = ?
update_row(row, lowest_price_reached, match_outcome, contracts, derived) ==
    [row EXCEPT !.contracts = Some(contracts),
                !.lowest_price_reached = Some(lowest_price_reached),
                !.match_outcome = Some(match_outcome),
                !.order_filled = Some(derived.order_filled),
                !.fill_price = derived.fill_price,
                !.edge = Some(derived.edge),
                !.pnl = Some(derived.pnl),
                !.status = "completed"]

\* get_bet_by_id: rows are never deleted, so id k is the k-th row
bet_exists(rows, bet_id) == bet_id \in 1..Len(rows)

\* The one value read before the UPDATE, target_price, is changed by no
\* statement, so the awaits inside update_outcome do not show.
update_outcome(rows, bet_id, lowest_price_reached, match_outcome, contracts) ==
    IF ~bet_exists(rows, bet_id) THEN rows
    ELSE LET derived == calculate_outcome(rows[bet_id].target_price,
                                          lowest_price_reached, match_outcome,
                                          contracts)
         IN [rows EXCEPT ![bet_id] = update_row(@, lowest_price_reached,
                                                match_outcome, contracts, derived)]

TrackArgs ==
    { [event_ticker |-> "EV1", fav_probability |-> 75, kalshi_price |-> 60,
       target_price |-> t] : t \in {56, 58} }

OutcomeInputs ==
    { [lowest_price_reached |-> l, match_outcome |-> o, contracts |-> 50] :
        l \in {55, 58, 59}, o \in {"fav_won", "fav_lost"} }

InitTracker ==
    /\ RestCycle
    /\ RestOrder
    /\ IdleEngine
    /\ IdleOracle
    /\ IdleTracker
    /\ IdleProvider
    /\ IdleLedgerCall

\* track_bet(...)
TrackBet ==
    /\ Len(bets) < MaxBets
    /\ \E a \in TrackArgs :
          /\ bets' = track_bet(bets, a)
          /\ bet_log' = Append(bet_log, 0)
    /\ UNCHANGED <<cycleVars, orderVars, engineVars, oracleVars, providerVars, ledgerCallVars>>

\* update_outcome(bet_id, ...), for an id that exists or the next one, which
\* does not
UpdateOutcome ==
    /\ \E bet_id \in 1..(Len(bets) + 1), x \in OutcomeInputs :
          /\ bet_exists(bets, bet_id) => bet_log[bet_id] < MaxUpdates
          /\ bets' = update_outcome(bets, bet_id, x.lowest_price_reached,
                                    x.match_outcome, x.contracts)
          /\ bet_log' = IF bet_exists(bets, bet_id)
                        THEN [bet_log EXCEPT ![bet_id] = @ + 1]
                        ELSE bet_log
    /\ UNCHANGED <<cycleVars, orderVars, engineVars, oracleVars, providerVars, ledgerCallVars>>

NextTracker == TrackBet \/ UpdateOutcome

SpecTracker == InitTracker /\ [][NextTracker]_vars

-----------------------------------------------------------------------------
(* Direct calls of the placed_orders functions of src/app/automation.py:     *)
(* record_order and already_ordered (the decision loop) and get_all_orders   *)
(* (routes.py:301, the inspection API).                                      *)

MaxRows == 2            \* rows inserted into placed_orders by direct calls

LedgerArgs ==
    { LedgerRow(ev, "MKT1", 51,
                IF st = "rejected_by_matchstat" THEN 0 ELSE CONTRACTS_PER_TRADE,
                50, None, TRUE, st) : ev \in EventTickers, st \in Statuses }

InitLedger ==
    /\ RestCycle
    /\ RestOrder
    /\ IdleEngine
    /\ IdleOracle
    /\ IdleTracker
    /\ IdleProvider
    /\ IdleLedgerCall

restOfCycleVars == <<DRY_RUN, last_run, last_run_summary, total_orders,
                     jobActive, co, clock, started, history, effects>>

\* record_order(...)
RecordOrderCall ==
    /\ Len(ledger) < MaxRows
    /\ \E row \in LedgerArgs : ledger' = record_order(ledger, row)
    /\ db_result' = Some(<<"record_order", None>>)
    /\ UNCHANGED <<restOfCycleVars, orderVars, engineVars, oracleVars,
                   trackerVars, providerVars>>

\* already_ordered(event_ticker)
AlreadyOrderedCall ==
    /\ \E ev \in EventTickers :
          db_result' = Some(<<"already_ordered", already_ordered(ledger, ev)>>)
    /\ UNCHANGED <<cycleVars, orderVars, engineVars, oracleVars,
                   trackerVars, providerVars>>

\* get_all_orders()
GetAllOrdersCall ==
    /\ db_result' = Some(<<"get_all_orders", get_all_orders(ledger)>>)
    /\ UNCHANGED <<cycleVars, orderVars, engineVars, oracleVars,
                   trackerVars, providerVars>>

NextLedger == RecordOrderCall \/ AlreadyOrderedCall \/ GetAllOrdersCall

SpecLedger == InitLedger /\ [][NextLedger]_vars

-----------------------------------------------------------------------------
(* Market Snapshot Provider, src/app/kalshi_client.py: _get_market_price,    *)
(* _parse_market and the part of fetch_tennis_markets after the downloads.   *)

MaxRaw == 2             \* raw markets downloaded in one poll

\* A market as the exchange returns it. A price field that is absent, None or
\* 0 is 0 (the code tests "x and x > 0"); named says whether two player names
\* can be extracted from the title or the rules.
RawMarket(ev, tk, last, bid, ask, named) ==
    [event_ticker |-> ev, ticker |-> tk, last_price |-> last, yes_bid |-> bid,
     yes_ask |-> ask, named |-> named]

\* lines 236-262
get_market_price(market) ==
    IF market.last_price > 0 THEN Some(market.last_price)
    ELSE IF market.yes_bid > 0 /\ market.yes_ask > 0
         THEN Some((market.yes_bid + market.yes_ask) \div 2)
    ELSE IF market.yes_ask > 0 THEN Some(market.yes_ask)
    ELSE IF market.yes_bid > 0 THEN Some(market.yes_bid)
    ELSE None

\* _get_market_price(market) or 0
price_or_zero(market) ==
    IF get_market_price(market) = None THEN 0 ELSE get_market_price(market)[1]

\* Fields of the dataclass MatchData (models.py:31-43) ...
MatchDataFields ==
    {"player_fav", "player_dog", "fav_probability", "kalshi_price",
     "tournament_name", "tournament_level", "surface", "volume",
     "kalshi_ticker", "kalshi_event_ticker"}

\* ... and keyword arguments _parse_market passes to it (lines 533-545).
MatchDataKeywords == MatchDataFields \cup {"close_time"}

\* A keyword that is not a field raises TypeError in the generated __init__.
MatchDataRaises == ~(MatchDataKeywords \subseteq MatchDataFields)

ProviderNone == [kind |-> "none", exc |-> "", match |-> None]

\* lines 477-545. The outcome is None, a snapshot or an exception. The
\* classification of the tournament is left out: every snapshot is a
\* standard-tour hard-court one.
parse_market(market) ==
    LET price == get_market_price(market) IN
    IF price = None THEN ProviderNone
    ELSE IF ~market.named THEN ProviderNone
    ELSE LET fav_prob == IF price[1] >= 50 THEN price[1] ELSE 100 - price[1]
             kalshi_price == IF price[1] >= 50 THEN price[1] ELSE 100 - price[1]
         IN IF MatchDataRaises
            THEN [ProviderNone EXCEPT !.kind = "raise", !.exc = "TypeError"]
            ELSE [ProviderNone EXCEPT
                    !.kind = "snapshot",
                    !.match = Some([Match(market.event_ticker, market.ticker,
                                          kalshi_price, "ATP")
                                      EXCEPT !.fav_probability = fav_prob])]

\* lines 303-308: one step of the loop over the raw markets; the dict keeps
\* the order in which the events were first seen
SeeMarket(seen, market) ==
    IF \E k \in 1..Len(seen) : seen[k].event_ticker = market.event_ticker
    THEN [k \in 1..Len(seen) |->
            IF /\ seen[k].event_ticker = market.event_ticker
               /\ price_or_zero(market) > price_or_zero(seen[k])
            THEN market ELSE seen[k]]
    ELSE Append(seen, market)

RECURSIVE events_seen(_, _)
events_seen(raw, seen) ==
    IF raw = <<>> THEN seen
    ELSE events_seen(Tail(raw), SeeMarket(seen, Head(raw)))

\* lines 311-315: the loop over the unique markets; an exception of
\* _parse_market leaves it
RECURSIVE ParseUnique(_, _)
ParseUnique(markets, matches) ==
    IF markets = <<>> THEN [kind |-> "ok", exc |-> "", matches |-> matches]
    ELSE LET parsed == parse_market(Head(markets)) IN
         IF parsed.kind = "raise"
         THEN [kind |-> "raise", exc |-> parsed.exc, matches |-> <<>>]
         ELSE ParseUnique(Tail(markets),
                          IF parsed.kind = "snapshot"
                          THEN Append(matches, parsed.match[1]) ELSE matches)

\* lines 300-317, on the raw markets the downloads gave
fetch_tennis_markets(raw) == ParseUnique(events_seen(raw, <<>>), <<>>)

RawCatalog ==
    { RawMarket(ev, "MKT1", last, 0, ask, named) :
        ev \in EventTickers, last \in {0, 30, 50, 70}, ask \in {0, 99},
        named \in BOOLEAN }
      \cup { RawMarket("EV1", "MKT1", 0, 40, 61, TRUE),
             RawMarket("EV1", "MKT1", 0, 1, 0, TRUE) }

PollCatalog ==
    { RawMarket(ev, "MKT1", last, 0, 0, named) :
        ev \in EventTickers, last \in {0, 30, 70}, named \in BOOLEAN }

ProviderCalls ==
    { [fn |-> "_parse_market", raw |-> <<m>>] : m \in RawCatalog }
      \cup { [fn |-> "fetch_tennis_markets", raw |-> ms] :
                ms \in UNION { [1..n -> PollCatalog] : n \in 0..MaxRaw } }

InitProvider ==
    /\ RestCycle
    /\ RestOrder
    /\ IdleEngine
    /\ IdleOracle
    /\ IdleTracker
    /\ IdleLedgerCall
    /\ pm_call \in { Some(a) : a \in ProviderCalls }
    /\ pm_result = None

\* _parse_market(market, tournament_db) runs to its end
ParseMarketCall ==
    /\ pm_result = None
    /\ pm_call[1].fn = "_parse_market"
    /\ pm_result' = Some(parse_market(pm_call[1].raw[1]))
    /\ UNCHANGED <<pm_call, cycleVars, orderVars, engineVars, oracleVars,
                   trackerVars, ledgerCallVars>>

\* fetch_tennis_markets() runs to its end
FetchMarketsCall ==
    /\ pm_result = None
    /\ pm_call[1].fn = "fetch_tennis_markets"
    /\ pm_result' = Some(fetch_tennis_markets(pm_call[1].raw))
    /\ UNCHANGED <<pm_call, cycleVars, orderVars, engineVars, oracleVars,
                   trackerVars, ledgerCallVars>>

NextProvider == ParseMarketCall \/ FetchMarketsCall

SpecProvider == InitProvider /\ [][NextProvider]_vars

-----------------------------------------------------------------------------
(* Cycles, one after the other, whose polls hold only snapshots of the shape *)
(* _parse_market gives them (kalshi_client.py:512-545): the price in cents   *)
(* is 100 x the favorite probability and no ranking is set. The engine is    *)
(* also called directly on one such snapshot.                                *)

ProviderShaped(ev, tk, p, level, surface) ==
    [Match(ev, tk, p, level) EXCEPT !.fav_probability = p, !.surface = surface]

ShapedCatalog ==
    { ProviderShaped(ev, "MKT1", p, ls[1], ls[2]) :
        ev \in EventTickers, p \in {50, 70, 92},
        ls \in { <<"ATP", "Grass">>, <<"Grand Slam", "Hard">> } }

ShapedFetchResults ==
    { ms \in UNION { [1..n -> ShapedCatalog] : n \in 0..MaxMatches } :
        \A a, b \in 1..Len(ms) :
            a # b => ms[a].kalshi_event_ticker # ms[b].kalshi_event_ticker }

ShapedOutcomes(pc, dry) ==
    IF pc = "fetch"
    THEN { [NoEnv EXCEPT !.matches = ms] : ms \in ShapedFetchResults }
           \cup { [NoEnv EXCEPT !.kind = "raise", !.exc = "FetchError"] }
    ELSE EnvOutcomes(pc, dry)

InitShaped ==
    /\ InitCycle
    /\ DRY_RUN = TRUE
    /\ ledger = <<>>
    /\ RestOrder
    /\ IdleOracle
    /\ IdleTracker
    /\ IdleProvider
    /\ IdleLedgerCall
    /\ eng_call \in { Some([fn |-> "analyze_match", matches |-> <<m>>]) :
                        m \in ShapedCatalog }
    /\ eng_result = None

ResumeShaped(c) == ResumeOn(c, ShapedOutcomes(co[c].pc, DRY_RUN))

NextShaped ==
    \/ \E c \in Slots : RunAlone(c)
    \/ \E c \in Slots : ResumeShaped(c)
    \/ AnalyzeMatchCall

SpecShaped == InitShaped /\ [][NextShaped]_vars

-----------------------------------------------------------------------------
(* Properties *)

EffectsOf(kind, ev) ==
    { k \in 1..Len(effects) :
        effects[k].kind = kind /\ effects[k].event_ticker = ev }

EffectsBy(t, ev) ==
    { k \in 1..Len(effects) :
        effects[k].cycle = t /\ effects[k].event_ticker = ev }

\* The finished cycle h had a BUY signal for event ev with both identifiers
BuysValid(h, ev) ==
    \E k \in 1..Len(h.sigs) : h.sigs[k][1] = ev /\ h.sigs[k][2] # ""

ReportsAlreadyOrdered(h, ev) ==
    \E k \in 1..Len(h.summary.details) :
        /\ h.summary.details[k].event_ticker = ev
        /\ h.summary.details[k].action = "already_ordered"

EnvironmentFailed(h) ==
    h.raised \in {Some("FetchError"), Some("DatabaseError")}

\* Two cycles were run one after the other, and nothing else
TwoInSequence ==
    /\ Len(history) = 2
    /\ Running = {}
    /\ history[1].ended_at < history[2].started_at

\* C1: two cycles run in sequence, both with a BUY signal with valid tickers for
\* an event E that had no ledger record before, and neither hit by a provider
\* or database failure, leave exactly one ledger record for E, and the second
\* cycle reports E as already_ordered.
C1_IdempotentTwice ==
    \A ev \in EventTickers :
        ( /\ TwoInSequence
          /\ ev \notin history[1].had
          /\ BuysValid(history[1], ev) /\ BuysValid(history[2], ev)
          /\ ~EnvironmentFailed(history[1]) /\ ~EnvironmentFailed(history[2]) )
        => ( /\ Cardinality(RowsOf(ledger, ev)) = 1
             /\ ReportsAlreadyOrdered(history[2], ev) )

C3_NoActionOnceRecorded ==
    /\ \A c \in Slots :
          /\ co[c].had \cap co[c].consulted = {}
          /\ \A ev \in co[c].had : EffectsBy(co[c].summary.started_at, ev) = {}
    /\ \A k \in 1..Len(history) :
          /\ history[k].had \cap history[k].consulted = {}
          /\ \A ev \in history[k].had : EffectsBy(history[k].started_at, ev) = {}

\* C3 witness: a failed order is on record for an event and a finished cycle
\* that had a BUY signal for it reported already_ordered.
C3_Witness ==
    /\ Len(ledger) >= 1
    /\ ledger[1].status = "failed"
    /\ \E k \in 1..Len(history) :
          /\ BuysValid(history[k], ledger[1].event_ticker)
          /\ ReportsAlreadyOrdered(history[k], ledger[1].event_ticker)

\* C4: a cycle that began the confirmation for an event (valid tickers, no
\* prior record) and did not confirm it submitted no order for the event and
\* wrote exactly one record for it, rejected and with quantity 0.
C4_FailClosedRecorded ==
    \A k \in 1..Len(history) :
        \A ev \in history[k].consulted :
            history[k].summary.matchstat_confirmed = 0
            => /\ \A e \in EffectsBy(history[k].started_at, ev) :
                      effects[e].kind # "order"
               /\ \E e \in EffectsBy(history[k].started_at, ev) :
                      /\ effects[e].kind = "insert"
                      /\ effects[e].status = "rejected_by_matchstat"
                      /\ effects[e].count = 0
               /\ Cardinality(EffectsBy(history[k].started_at, ev)) = 1

\* C5: a call of place_limit_order with the dry-run flag set returns status
\* simulated (so never placed) and hands nothing to the HTTP client.
C5_DryRunSimulates ==
    (po_result # None /\ po_call[1].dry_run)
    => /\ po_result[1].status = "simulated"
       /\ po_result[1].dry_run = TRUE
       /\ po_posts = <<>>

\* C5 witness: a dry-run call returned while the exchange would have accepted
\* the order.
C5_Witness ==
    /\ po_result # None
    /\ po_call[1].dry_run
    /\ po_call[1].http = "ok"

\* C6: when an exception is raised while a cycle processes one BUY signal, the
\* cycle still processes every BUY signal (one detail entry each) and the
\* failing match has a ledger record.
C6_ExceptionDoesNotAbort ==
    \A k \in 1..Len(history) :
        (history[k].raised # None /\ history[k].at >= 1)
        => /\ Len(history[k].summary.details) = Len(history[k].sigs)
           /\ already_ordered(ledger, history[k].sigs[history[k].at][1])

\* C8: every cycle returns its summary: no exception leaves
\* run_automation_cycle, an exception raised inside is in the summary's error
\* field, and the summary of the cycle that finished last is the latest one.
C8_NeverPropagates ==
    /\ \A k \in 1..Len(history) :
          /\ history[k].outcome = "returned"
          /\ history[k].raised # None
               => history[k].summary.error = history[k].raised
    /\ history # <<>>
         => last_run_summary = Some(history[Len(history)].summary)

\* C8 witness: a cycle ended with an error raised by the oracle call and, after
\* it, a scheduled cycle is running.
C8_Witness ==
    /\ Len(history) >= 1
    /\ history[1].raised = Some("TypeError")
    /\ history[1].summary.error = Some("TypeError")
    /\ \E c \in Slots :
          /\ co[c].pc # "idle"
          /\ co[c].trigger = "interval"
          /\ co[c].summary.started_at > history[1].ended_at

\* C9: at most one cycle is in progress at any time.
C9_SingleActiveCycle == Cardinality(Running) <= 1

\* C10: the quantity of the simulated result (dry run) and of every payload
\* handed to the HTTP client (live) is min(requested count, cap).
C10_QuantityClamped ==
    po_result # None
    => LET a == po_call[1]
           n == IF a.count <= a.cap THEN a.count ELSE a.cap
       IN /\ a.dry_run => po_result[1].count = Some(n)
          /\ \A k \in 1..Len(po_posts) : po_posts[k].count = n
          /\ po_result[1].status = "placed" => po_result[1].order[1].count = n

\* C10 witness: a live call asking for more than the cap reached the exchange.
C10_Witness ==
    /\ po_result # None
    /\ ~po_call[1].dry_run
    /\ po_call[1].count > po_call[1].cap
    /\ po_posts # <<>>

\* C12: a snapshot whose pricing signal is WAIT or SKIP is left alone by the
\* cycle: the confirmation is not begun for its event, no order is submitted
\* and no record inserted for it; an event without a record still has none
\* when the cycle is over, and when the next cycle's first BUY signal is for
\* that event (both identifiers present, the database answering) the cycle
\* evaluates it as a new event and begins the confirmation.
C12_NotBuyLeftAlone ==
    /\ \A c \in Slots : \A p \in co[c].passed :
          /\ p[1] \notin co[c].consulted
          /\ EffectsBy(co[c].summary.started_at, p[1]) = {}
    /\ \A k \in 1..Len(history) : \A p \in history[k].passed :
          /\ p[1] \notin history[k].consulted
          /\ EffectsBy(history[k].started_at, p[1]) = {}
          /\ \A d \in 1..Len(history[k].summary.details) :
                history[k].summary.details[d].event_ticker # p[1]
          /\ (p[1] \notin history[k].had /\ k = Len(history) /\ Running = {})
                => RowsOf(ledger, p[1]) = {}
          /\ ( /\ p[1] \notin history[k].had
               /\ k < Len(history)
               /\ history[k + 1].sigs # <<>>
               /\ history[k + 1].sigs[1][1] = p[1]
               /\ history[k + 1].sigs[1][2] # ""
               /\ history[k + 1].raised # Some("DatabaseError") )
                => p[1] \in history[k + 1].consulted

\* C12 witness: a cycle polled one WAIT and one SKIP snapshot and ended without
\* error, and the next cycle began the confirmation for the event that was WAIT.
C12_Witness ==
    /\ Len(history) = 2
    /\ history[1].passed = { <<"EV1", "WAIT">>, <<"EV2", "SKIP">> }
    /\ history[1].raised = None
    /\ "EV1" \in history[2].consulted

\* Signals of a finished cycle that lack an identifier / that the loop reached
MissingId(h) ==
    { j \in 1..Len(h.sigs) : h.sigs[j][1] = "" \/ h.sigs[j][2] = "" }

ReachedByLoop(h) == { j \in 1..Len(h.sigs) : j < h.at }

DetailsWith(h, action) ==
    { d \in 1..Len(h.summary.details) : h.summary.details[d].action = action }

AtOrAboveThreshold(f) == f[1] * 100 >= MATCHSTAT_MIN_WIN_PCT * f[2]

\* C14: the confirmation decision is true exactly when a win fraction was
\* returned and the fraction is at or above the threshold: unknown never
\* confirms, a fraction equal to the threshold confirms; and the oracle returns
\* a fraction only with the API key configured, the searches answered and a
\* head-to-head total of at least the minimum sample size.
C14_ConfirmedIffAtOrAbove ==
    orc_result # None
    => LET r == orc_result[1]
           o == orc_call[1].oracle
       IN /\ r.confirmed <=> (r.win_pct # None /\ AtOrAboveThreshold(r.win_pct[1]))
          /\ r.win_pct = None => ~r.confirmed
          /\ (orc_call[1].fn = "get_player_win_probability" /\ r.win_pct # None)
                => /\ o.api_key /\ o.search_ok
                   /\ o.h2h # <<>>
                   /\ o.h2h[2] >= MATCHSTAT_MIN_H2H

\* C14 witness: the policy was applied to a fraction equal to the threshold
\* (3 wins of 5 against 0.60) and confirmed.
C14_Witness ==
    /\ orc_result # None
    /\ orc_call[1].fn = "confirms_signal"
    /\ orc_call[1].win = Some(<<3, 5>>)
    /\ orc_result[1].confirmed

\* The analyze_match call that returned: its argument and its result
EngineReturned(fn) == eng_result # None /\ eng_call[1].fn = fn

\* C15: analyze_match returns SKIP with target price and factor unset for every
\* match of tier Grand Slam, whatever its other fields.
C15_MajorsAlwaysSkip ==
    (EngineReturned("analyze_match")
       /\ eng_call[1].matches[1].tournament_level = "Grand Slam")
    => /\ eng_result[1][1].signal = "SKIP"
       /\ eng_result[1][1].target_price = None
       /\ eng_result[1][1].factor = None

\* C15 witness: a major that passes every other filter and is priced below any
\* target was analyzed.
C15_Witness ==
    /\ EngineReturned("analyze_match")
    /\ LET m == eng_call[1].matches[1]
       IN /\ m.tournament_level = "Grand Slam"
          /\ m.fav_probability = 75
          /\ m.volume = 100
          /\ m.rank_fav = None
          /\ m.kalshi_price = 40

\* Neither the ranking-gap filter nor the volume filter trips on the match
PassesGapAndVolume(m) ==
    /\ (m.rank_fav # None /\ m.rank_dog # None)
         => Abs(m.rank_fav[1] - m.rank_dog[1]) <= GAP_MAX
    /\ m.volume >= MIN_VOLUME

\* C16: for a match that is not a major, a favorite probability strictly below
\* the floor or strictly above the ceiling gives SKIP, and a probability from
\* the floor to the ceiling, both included, is not skipped unless another
\* filter trips.
C16_ProbabilityBoundsInclusive ==
    (EngineReturned("analyze_match")
       /\ eng_call[1].matches[1].tournament_level # "Grand Slam")
    => LET m == eng_call[1].matches[1]
           r == eng_result[1][1]
       IN /\ (m.fav_probability < MIN_FAVORITE_PCT
                 \/ m.fav_probability > MAX_FAVORITE_PCT) => r.signal = "SKIP"
          /\ ( /\ m.fav_probability >= MIN_FAVORITE_PCT
               /\ m.fav_probability <= MAX_FAVORITE_PCT
               /\ PassesGapAndVolume(m) ) => r.signal # "SKIP"

\* C16 witness: a match with the favorite exactly at the floor was priced.
C16_Witness ==
    /\ EngineReturned("analyze_match")
    /\ eng_call[1].matches[1].fav_probability = MIN_FAVORITE_PCT
    /\ eng_result[1][1].signal = "BUY"

\* The match has no ranking gap (a ranking is unknown) and is priced
PricedWithoutRanking(m, r) ==
    /\ (m.rank_fav = None \/ m.rank_dog = None)
    /\ r.signal # "SKIP"

\* The example of the claim: 0.75, standard tour, hard court, no ranking data,
\* sufficient volume
IsExample(m) ==
    /\ m.fav_probability = 75 /\ m.tournament_level = "ATP"
    /\ m.surface = "Hard" /\ m.rank_fav = None /\ m.rank_dog = None
    /\ m.volume >= MIN_VOLUME

\* C17 as stated: with no ranking data the factor has no ranking-gap
\* adjustment; for the example the factor is 0.70 and the target 0.525.
C17_UnknownRankingNoAdjustment ==
    EngineReturned("analyze_match")
    => LET m == eng_call[1].matches[1]
           r == eng_result[1][1]
       IN /\ PricedWithoutRanking(m, r)
               => r.factor = Some(BASE_FACTOR + TOURNAMENT_ADJ(m.tournament_level)
                                    + SURFACE_ADJ(m.surface))
          /\ IsExample(m) => (r.factor = Some(70) /\ r.target_price = Some(5250))

\* C17 amended: with no ranking data the gap is priced as 0, so the factor
\* carries the small-gap adjustment; for the example the factor is 0.68 and
\* the target 0.51.
C17_UnknownRankingSmallGap ==
    EngineReturned("analyze_match")
    => LET m == eng_call[1].matches[1]
           r == eng_result[1][1]
       IN /\ PricedWithoutRanking(m, r)
               => r.factor = Some(BASE_FACTOR + TOURNAMENT_ADJ(m.tournament_level)
                                    + SURFACE_ADJ(m.surface) + GAP_ADJ_SMALL)
          /\ IsExample(m) => (r.factor = Some(68) /\ r.target_price = Some(5100))

\* C17 witness: the example was analyzed.
C17_Witness ==
    /\ EngineReturned("analyze_match")
    /\ IsExample(eng_call[1].matches[1])
    /\ eng_call[1].matches[1].volume = 100

Occurrences(seq, x) == Cardinality({ k \in 1..Len(seq) : seq[k] = x })

SignalRank(sig) ==
    CASE sig = "BUY" -> 0 [] sig = "WAIT" -> 1 [] sig = "SKIP" -> 2 [] OTHER -> 3

\* The per-match results of the batch, in input order
PerMatch(matches) == [k \in 1..Len(matches) |-> analyze_match(matches[k])]

\* C19: analyze_all returns one result per input match, the per-match results
\* of analyze_match each as often as the input gives it, ordered with every
\* BUY before every WAIT and every WAIT before every SKIP.
C19_OneResultEachBySignal ==
    EngineReturned("analyze_all")
    => LET ms == eng_call[1].matches
           out == eng_result[1]
           each == PerMatch(ms)
       IN /\ Len(out) = Len(ms)
          /\ \A k \in 1..Len(each) :
                Occurrences(out, each[k]) = Occurrences(each, each[k])
          /\ \A a, b \in 1..Len(out) :
                a < b => SignalRank(out[a].signal) <= SignalRank(out[b].signal)

\* C19 witness: a batch given as SKIP, WAIT, BUY was analyzed.
C19_Witness ==
    /\ EngineReturned("analyze_all")
    /\ Len(eng_call[1].matches) = 3
    /\ eng_call[1].matches[1].tournament_level = "Grand Slam"
    /\ eng_call[1].matches[2].kalshi_price = 60
    /\ eng_call[1].matches[3].kalshi_price = 51
    /\ eng_result[1][1].signal = "BUY"

\* C20 as stated: of two BUY results the one with the smaller edge comes
\* first, whatever the input order.
C20_BuyByTightestEdge ==
    EngineReturned("analyze_all")
    => \A a, b \in 1..Len(eng_result[1]) :
          ( /\ a < b
            /\ eng_result[1][a].signal = "BUY"
            /\ eng_result[1][b].signal = "BUY" )
          => eng_result[1][a].edge[1] <= eng_result[1][b].edge[1]

\* C20 amended: the BUY results come in the order of their matches in the
\* input; the edge plays no part in the order.
C20_BuyInInputOrder ==
    EngineReturned("analyze_all")
    => OfSignal(eng_result[1], "BUY")
         = OfSignal(PerMatch(eng_call[1].matches), "BUY")

\* C20 witness: a batch with the wider BUY (edge 0.01) given before the tighter
\* one (edge 0) was analyzed.
C20_Witness ==
    /\ EngineReturned("analyze_all")
    /\ Len(eng_call[1].matches) >= 2
    /\ eng_call[1].matches[1].kalshi_price = 50
    /\ eng_call[1].matches[2].kalshi_price = 51
    /\ eng_result[1][1].edge = Some(100)
    /\ eng_result[1][2].edge = Some(0)

-----------------------------------------------------------------------------
(* Outcome ledger properties, checked under SpecTracker.                     *)

CompletedRows == { k \in 1..Len(bets) : bets[k].status = "completed" }

PendingRows == { k \in 1..Len(bets) : bets[k].status = "pending" }

OutcomeFields ==
    {"contracts", "lowest_price_reached", "match_outcome",
     "order_filled", "fill_price", "edge", "pnl"}

SnapshotFields ==
    {"event_ticker", "fav_probability", "kalshi_price", "target_price"}

\* C21: in every completed row the fill indicator is 1 iff the lowest price
\* reached is at or below the target price (0 otherwise), the fill price is
\* the target price when filled and unset otherwise, and the edge is the
\* lowest price reached minus the target price.
C21_OutcomeDerivation ==
    \A k \in CompletedRows :
        LET row == bets[k]
            lowest == row.lowest_price_reached[1]
        IN /\ row.order_filled \in {Some(0), Some(1)}
           /\ row.order_filled = Some(1) <=> lowest <= row.target_price
           /\ row.order_filled = Some(1) => row.fill_price = Some(row.target_price)
           /\ row.order_filled = Some(0) => row.fill_price = None
           /\ row.edge = Some(lowest - row.target_price)

\* C21 witness: an outcome entered with the lowest price exactly at the
\* target, and one with the lowest price one cent above it.
C21_Witness ==
    /\ \E k \in CompletedRows :
          /\ bets[k].lowest_price_reached = Some(bets[k].target_price)
          /\ bets[k].order_filled = Some(1)
    /\ \E k \in CompletedRows :
          /\ bets[k].lowest_price_reached = Some(bets[k].target_price + 1)
          /\ bets[k].order_filled = Some(0)

\* C22: in every completed row the profit/loss (in cents) is zero when the
\* order did not fill, whoever won; (100 - fill price) x quantity when it
\* filled and the favorite won; -(fill price x quantity) when it filled and
\* the favorite lost.
C22_ProfitLoss ==
    \A k \in CompletedRows :
        LET row == bets[k]
            quantity == row.contracts[1]
        IN /\ row.order_filled = Some(0) => row.pnl = Some(0)
           /\ ( row.order_filled = Some(1) /\ row.match_outcome = Some("fav_won") )
              => row.pnl = Some((100 - row.fill_price[1]) * quantity)
           /\ ( row.order_filled = Some(1) /\ row.match_outcome = Some("fav_lost") )
              => row.pnl = Some(0 - (row.fill_price[1] * quantity))

\* C22 witness: target 58, lowest 55, quantity 50, favorite won: 21.00; and an
\* unfilled order on a lost match.
C22_Witness ==
    /\ \E k \in CompletedRows :
          /\ bets[k].target_price = 58
          /\ bets[k].lowest_price_reached = Some(55)
          /\ bets[k].contracts = Some(50)
          /\ bets[k].match_outcome = Some("fav_won")
          /\ bets[k].pnl = Some(2100)
    /\ \E k \in CompletedRows :
          /\ bets[k].order_filled = Some(0)
          /\ bets[k].match_outcome = Some("fav_lost")

\* C23 as stated: every pending row has all seven outcome and derived fields
\* unset and every completed row has all seven set.
C23_CompletedAllSet ==
    /\ \A k \in PendingRows : \A f \in OutcomeFields : bets[k][f] = None
    /\ \A k \in CompletedRows : \A f \in OutcomeFields : bets[k][f] # None

\* C23 amended: every pending row has all seven outcome and derived fields
\* unset; every completed row has the six other than the fill price set, and
\* the fill price set exactly when the order filled.
C23_CompletedSetButFillPrice ==
    /\ \A k \in PendingRows : \A f \in OutcomeFields : bets[k][f] = None
    /\ \A k \in CompletedRows :
          /\ \A f \in OutcomeFields \ {"fill_price"} : bets[k][f] # None
          /\ bets[k].fill_price # None <=> bets[k].order_filled = Some(1)

\* C23 witness: a pending row beside a completed row whose order did not fill.
C23_Witness ==
    /\ PendingRows # {}
    /\ \E k \in CompletedRows : bets[k].order_filled = Some(0)

\* C24: a new row is pending, a row that update_outcome wrote is completed,
\* and a completed row stays completed in every step; rows never go away.
C24_StatusOneWay ==
    [][ /\ Len(bets') >= Len(bets)
        /\ \A k \in 1..Len(bets') :
              IF k > Len(bets)
              THEN bets'[k].status = "pending"
              ELSE /\ bets[k].status = "completed" => bets'[k].status = "completed"
                   /\ bet_log'[k] > bet_log[k] => bets'[k].status = "completed"
      ]_vars

\* C24 witness: a row completed and then written by update_outcome again,
\* with another row tracked beside it.
C24_Witness ==
    /\ Len(bets) = 2
    /\ bets[1].status = "completed"
    /\ bet_log[1] = 2
    /\ bets[2].status = "pending"

\* C25: no step changes a completed row, and no step changes the snapshot
\* fields of any row.
C25_CompletedRowFrozen ==
    [][ \A k \in 1..Len(bets) :
          /\ \A f \in SnapshotFields : bets'[k][f] = bets[k][f]
          /\ bets[k].status = "completed"
             => \A f \in OutcomeFields : bets'[k][f] = bets[k][f]
      ]_vars

-----------------------------------------------------------------------------
(* Order ledger properties.                                                  *)

\* C26: every step leaves every existing order record in place and unchanged;
\* the ledger after a step is the ledger before it, possibly with new records
\* after the old ones.
C26_LedgerAppendOnly ==
    [][ /\ Len(ledger') >= Len(ledger)
        /\ \A k \in 1..Len(ledger) : ledger'[k] = ledger[k]
      ]_vars

\* C26 witness: a second record was inserted for an event that already had
\* one, and the inspection API then read both.
C26_Witness ==
    /\ Len(ledger) = 2
    /\ ledger[1].event_ticker = ledger[2].event_ticker
    /\ ledger[1].status # ledger[2].status
    /\ db_result # None
    /\ db_result[1][1] = "get_all_orders"
    /\ Len(db_result[1][2]) = 2

-----------------------------------------------------------------------------
(* Cycle summary properties.                                                 *)

\* C28: in the summary of every cycle that ended without an exception,
\* buy_signals = skipped_no_ticker + already_ordered + matchstat_checked,
\* matchstat_checked = matchstat_confirmed + matchstat_rejected,
\* matchstat_confirmed = orders_placed + orders_failed, and the details list
\* has one entry per BUY signal.
C28_CountersConserved ==
    \A k \in 1..Len(history) :
        LET h == history[k]
            s == h.summary
        IN ( h.outcome = "returned" /\ h.raised = None )
           => /\ s.buy_signals = Len(h.sigs)
              /\ s.buy_signals = s.skipped_no_ticker + s.already_ordered
                                   + s.matchstat_checked
              /\ s.matchstat_checked = s.matchstat_confirmed + s.matchstat_rejected
              /\ s.matchstat_confirmed = s.orders_placed + s.orders_failed
              /\ Len(s.details) = s.buy_signals

\* C28 witness: a cycle ended without an exception after two BUY signals, one
\* skipped for a missing identifier and one found in the ledger.
C28_Witness ==
    \E k \in 1..Len(history) :
        /\ history[k].outcome = "returned"
        /\ history[k].raised = None
        /\ history[k].summary.buy_signals = 2
        /\ history[k].summary.skipped_no_ticker = 1
        /\ history[k].summary.already_ordered = 1

-----------------------------------------------------------------------------
(* Market Snapshot Provider properties, checked under SpecProvider.          *)

ProviderReturned(fn) ==
    /\ pm_call # None
    /\ pm_result # None
    /\ pm_call[1].fn = fn

Priced(market) ==
    /\ get_market_price(market) # None
    /\ get_market_price(market)[1] \in 1..99

\* C27: _parse_market builds, from a market priced 1..99 cents with two named
\* players, a snapshot with favorite probability >= 0.5 and price in 1..99:
\* probability p and the price when the YES price is 50 or more, 1 - p and
\* 100 - price when it is below 50; and the list fetch_tennis_markets returns
\* has at most one snapshot per event identifier.
C27_SnapshotNormalized ==
    /\ ProviderReturned("_parse_market")
       => LET market == pm_call[1].raw[1]
              yes == get_market_price(market)[1]
          IN ( Priced(market) /\ market.named )
             => /\ pm_result[1].kind = "snapshot"
                /\ pm_result[1].match[1].fav_probability >= 50
                /\ pm_result[1].match[1].kalshi_price \in 1..99
                /\ yes >= 50 => /\ pm_result[1].match[1].fav_probability = yes
                                /\ pm_result[1].match[1].kalshi_price = yes
                /\ yes < 50 => /\ pm_result[1].match[1].fav_probability = 100 - yes
                               /\ pm_result[1].match[1].kalshi_price = 100 - yes
    /\ ( ProviderReturned("fetch_tennis_markets") /\ pm_result[1].kind = "ok" )
       => \A a, b \in 1..Len(pm_result[1].matches) :
             a # b => pm_result[1].matches[a].kalshi_event_ticker
                        # pm_result[1].matches[b].kalshi_event_ticker

-----------------------------------------------------------------------------
(* Provider-shaped snapshots, checked under SpecShaped.                      *)

\* C30: for a snapshot whose price in cents is 100 x its favorite probability
\* and whose rankings are unset, analyze_match does not return BUY and the
\* factor, when one is computed, is below 1; a cycle whose poll holds only
\* such snapshots counts no BUY signal, begins no confirmation, submits no
\* order and writes no ledger record.
C30_ShapedNeverBuy ==
    /\ EngineReturned("analyze_match")
       => /\ eng_result[1][1].signal # "BUY"
          /\ eng_result[1][1].factor # None => eng_result[1][1].factor[1] < 100
    /\ effects = <<>>
    /\ ledger = <<>>
    /\ total_orders = 0
    /\ \A c \in Slots : co[c].pc \in {"idle", "fetch"}
    /\ \A k \in 1..Len(history) :
          /\ history[k].summary.buy_signals = 0
          /\ history[k].summary.details = <<>>
          /\ history[k].consulted = {}

\* C30 witness: the engine priced a snapshot at 0.92 / 92 cents on grass
\* (factor 0.71, WAIT), and a cycle ended without error on a poll of two
\* snapshots, one priced and one skipped.
C30_Witness ==
    /\ EngineReturned("analyze_match")
    /\ eng_call[1].matches[1].fav_probability = 92
    /\ eng_call[1].matches[1].kalshi_price = 92
    /\ eng_result[1][1].signal = "WAIT"
    /\ eng_result[1][1].factor = Some(71)
    /\ \E k \in 1..Len(history) :
          /\ history[k].raised = None
          /\ history[k].summary.markets_fetched = 2
          /\ \E e1, e2 \in EventTickers :
                {<<e1, "WAIT">>, <<e2, "SKIP">>} \subseteq history[k].passed

=============================================================================
